---- MODULE Spec2Model ----
(***************************************************************************)
(* A model of chunkymonkey:                                                *)
(*   - the chunk manager (ChunkManager.Get and its neighbour linking),     *)
(*     checked under ChunkSpec;                                            *)
(*   - the player session (StartPlayer, ReceiveLoop, TransmitLoop,         *)
(*     postLogin, SendTimeUpdate) driven by the game loop, checked under   *)
(*     Spec;                                                               *)
(*   - ChunkManager.ChunksInRadius, checked under RadiusSpec;              *)
(*   - the inventory Slot (Init, Add), checked under SlotSpec;             *)
(*   - the packet codec (ReadPacket, WritePacket), checked under           *)
(*     CodecSpec.                                                          *)
(* Each specification leaves the other parts' variables untouched.         *)
(***************************************************************************)
EXTENDS Integers, Sequences, FiniteSets, TLC

VARIABLES
    \* ---- chunk manager (src/unnamed/part_000) ----
    mgrChunks,     \* ChunkManager.chunks: chunk key -> chunk id (0 = no entry)
    chunkLoc,      \* sequence: for each constructed chunk object, its coordinate
    sideCache,     \* sequence: for each chunk object, [Dirs -> neighbour id or 0]
    chunkQueue,    \* sequence: for each chunk object, its queue of work items
    getPc,         \* per caller: where it stands inside Get
    getLoc,        \* per caller: the argument loc of the Get in progress
    getChunk,      \* per caller: the chunk object constructed by the Get in progress
    getDir,        \* per caller: index in LinkOrder of the linkNeighbours call in progress
    getNeighbour,  \* per caller: neighbour found by the linkNeighbours call in progress
    getRet,        \* per caller: the value its Get(getLoc) returned, once it has returned
    loadCalls,     \* history: number of chunkStore.LoadChunk calls made
    raced,         \* history: some Get began while another Get was in progress
    \* ---- player session (src/player.go) and game loop ----
    spPc,          \* per player: position of StartPlayer
    rxPc,          \* per player: ReceiveLoop "off" / "reading" / "done"
    txPc,          \* per player: TransmitLoop "off" / "recv" / "write" / "done"
    txBs,          \* per player: the slice TransmitLoop received and is writing
    position,      \* per player: Player.position
    orientation,   \* per player: Player.orientation
    conn,          \* per player: socket "open" / "peerClosed" / "closed"
    txQueue,       \* per player: contents of the txQueue channel
    txClosed,      \* per player: the txQueue channel has been closed
    sent,          \* history, per player: slices the game loop put on txQueue
    written,       \* per player: slices written to the socket, in Write order
    workQueue,     \* game loop: work items submitted with game.Enqueue
    glPending,     \* game loop: channel sends left in the running work item
    players,       \* game loop: the registered players
    time,          \* game loop: world clock
    removed,       \* history, per player: a RemovePlayer work item has run
    rxFailed,      \* history, per player: ReadPacket returned an error
    rxLast,        \* history, per player: the last position or look packet handled
    \* ---- ChunksInRadius (src/unnamed/part_000) ----
    cirLoc,        \* the argument loc of ChunksInRadius
    cirChunks,     \* mgr.chunks as the goroutine sees it: the coordinates loaded
    cirI,          \* number of coordinates the two loops have visited
    cirOut,        \* the items sent on the channel c, in order
    cirFails,      \* history: number of LoadChunk calls that failed
    cirClosed,     \* the channel c has been closed
    \* ---- inventory slots (src/unnamed/part_000) ----
    slots,         \* the two slots of an Add: the subject "s" and the passed "src"
    slotLast,      \* history: the last operation and the slots before it
    \* ---- packet codec (src/unnamed/part_001) ----
    codecPc,       \* "start" / "written" / "read" / "done"
    codecIn,       \* the input: a string to write, or the bytes of a packet to read
    codecWire,     \* what the writer has received
    codecVal,      \* the value the reader has decoded
    codecErr       \* the error the last call returned

chunkVars == <<mgrChunks, chunkLoc, sideCache, chunkQueue, getPc, getLoc, getChunk,
               getDir, getNeighbour, getRet, loadCalls, raced>>
playerVars == <<spPc, rxPc, txPc, txBs, position, orientation, conn, txQueue, txClosed, sent, written, workQueue,
                glPending, players, time, removed, rxFailed, rxLast>>
radiusVars == <<cirLoc, cirChunks, cirI, cirOut, cirFails, cirClosed>>
slotVars == <<slots, slotLast>>
codecVars == <<codecPc, codecIn, codecWire, codecVal, codecErr>>
vars == <<chunkVars, playerVars, radiusVars, slotVars, codecVars>>

\* What the steps of one part leave alone.
offChunk == <<playerVars, radiusVars, slotVars, codecVars>>
offPlayer == <<chunkVars, radiusVars, slotVars, codecVars>>
offRadius == <<chunkVars, playerVars, slotVars, codecVars>>
offSlot == <<chunkVars, playerVars, radiusVars, codecVars>>
offCodec == <<chunkVars, playerVars, radiusVars, slotVars>>

-----------------------------------------------------------------------------
(***************************************************************************)
(* Chunk manager                                                           *)
(***************************************************************************)

\* Bounds of the chunk manager model.
MaxChunks == 3        \* chunk objects constructed in one behaviour
MaxLoadCalls == 3     \* chunkStore.LoadChunk calls in one behaviour

Callers == {"gameLoop", "radius"}     \* sendChunks and a ChunksInRadius goroutine
CoordRange == 0 .. 1
\* A chunk, its east and its south neighbour.
Coords == {l \in [X : CoordRange, Z : CoordRange] : l.X + l.Z <= 1}

Nil == 0

ChunkSideEast == "East"
ChunkSideSouth == "South"
ChunkSideWest == "West"
ChunkSideNorth == "North"
Dirs == {ChunkSideEast, ChunkSideSouth, ChunkSideWest, ChunkSideNorth}

\* ChunkSideDir.GetDxz
GetDxz(d) ==
    CASE d = ChunkSideEast  -> [dx |-> 1, dz |-> 0]
      [] d = ChunkSideSouth -> [dx |-> 0, dz |-> 1]
      [] d = ChunkSideWest  -> [dx |-> -1, dz |-> 0]
      [] d = ChunkSideNorth -> [dx |-> 0, dz |-> -1]

\* ChunkSideDir.GetOpposite
GetOpposite(d) ==
    CASE d = ChunkSideEast  -> ChunkSideWest
      [] d = ChunkSideSouth -> ChunkSideNorth
      [] d = ChunkSideWest  -> ChunkSideEast
      [] d = ChunkSideNorth -> ChunkSideSouth

\* ChunkXz.ChunkKey: the 64-bit key (uint32(cx) << 32) | uint32(cz), kept as its
\* two 32-bit words (each word is the bit pattern of the int32 coordinate).
ChunkKey(loc) == <<loc.X, loc.Z>>

\* The coordinate next to loc in direction d (part_000:125-129).
NeighbourLoc(loc, d) == [X |-> loc.X + GetDxz(d).dx, Z |-> loc.Z + GetDxz(d).dz]

\* The keys the model's callers and linkNeighbours can look up.
Keys == {ChunkKey(l) : l \in [X : -1 .. 2, Z : -1 .. 2]}

\* mgr.chunks[key]: the chunk id, or Nil when there is no entry.
Lookup(loc) == mgrChunks[ChunkKey(loc)]

\* The order of the four linkNeighbours calls (part_000:142-145).
LinkOrder == <<ChunkSideEast, ChunkSideSouth, ChunkSideWest, ChunkSideNorth>>

ChunkIds == 1 .. Len(chunkLoc)

ChunkInitVars ==
    /\ mgrChunks = [k \in Keys |-> Nil]
    /\ chunkLoc = <<>>
    /\ sideCache = <<>>
    /\ chunkQueue = <<>>
    /\ getPc = [p \in Callers |-> "idle"]
    /\ getLoc = [p \in Callers |-> [X |-> 0, Z |-> 0]]
    /\ getChunk = [p \in Callers |-> Nil]
    /\ getDir = [p \in Callers |-> 1]
    /\ getNeighbour = [p \in Callers |-> Nil]
    /\ getRet = [p \in Callers |-> [c |-> Nil, called |-> FALSE]]
    /\ loadCalls = 0
    /\ raced = FALSE

\* Get, lines 107-111: the map lookup; a hit returns the entry.
GetBegin(p, loc) ==
    /\ getPc[p] = "idle"
    /\ raced' = (raced \/ \E q \in Callers \ {p} : getPc[q] # "idle")
    /\ getLoc' = [getLoc EXCEPT ![p] = loc]
    /\ IF Lookup(loc) # Nil
         THEN /\ getRet' = [getRet EXCEPT ![p] = [c |-> Lookup(loc), called |-> TRUE]]
              /\ UNCHANGED getPc
         ELSE /\ getRet' = [getRet EXCEPT ![p] = [c |-> Nil, called |-> FALSE]]
              /\ getPc' = [getPc EXCEPT ![p] = "load"]
    /\ UNCHANGED <<mgrChunks, chunkLoc, sideCache, chunkQueue, getChunk, getDir,
                   getNeighbour, loadCalls>>
    /\ UNCHANGED offChunk

\* A slip: the `return nil` of the error branch is missing, and Get goes on to
\* construct a chunk from the reader of the failed load.
MutGetLoadFail(p) ==
    /\ getPc[p] = "load"
    /\ loadCalls < MaxLoadCalls
    /\ Len(chunkLoc) < MaxChunks
    /\ loadCalls' = loadCalls + 1
    /\ chunkLoc' = Append(chunkLoc, getLoc[p])
    /\ sideCache' = Append(sideCache, [d \in Dirs |-> Nil])
    /\ chunkQueue' = Append(chunkQueue, <<>>)
    /\ getChunk' = [getChunk EXCEPT ![p] = Len(chunkLoc) + 1]
    /\ getDir' = [getDir EXCEPT ![p] = 1]
    /\ getPc' = [getPc EXCEPT ![p] = "link"]
    /\ UNCHANGED <<mgrChunks, getLoc, getNeighbour, getRet, raced>>
    /\ UNCHANGED offChunk

\* Get, lines 113-117: LoadChunk failed; log and return nil.
GetLoadFail(p) ==
    /\ getPc[p] = "load"
    /\ loadCalls < MaxLoadCalls
    /\ loadCalls' = loadCalls + 1
    /\ getPc' = [getPc EXCEPT ![p] = "idle"]
    /\ getRet' = [getRet EXCEPT ![p] = [c |-> Nil, called |-> TRUE]]
    /\ UNCHANGED <<mgrChunks, chunkLoc, sideCache, chunkQueue, getLoc, getChunk, getDir,
                   getNeighbour, raced>>
    /\ UNCHANGED offChunk

\* Get, lines 113-120: LoadChunk succeeded; newChunkFromReader constructs the chunk.
GetLoadOk(p) ==
    /\ getPc[p] = "load"
    /\ loadCalls < MaxLoadCalls
    /\ Len(chunkLoc) < MaxChunks
    /\ loadCalls' = loadCalls + 1
    /\ chunkLoc' = Append(chunkLoc, getLoc[p])
    /\ sideCache' = Append(sideCache, [d \in Dirs |-> Nil])
    /\ chunkQueue' = Append(chunkQueue, <<>>)
    /\ getChunk' = [getChunk EXCEPT ![p] = Len(chunkLoc) + 1]
    /\ getDir' = [getDir EXCEPT ![p] = 1]
    /\ getPc' = [getPc EXCEPT ![p] = "link"]
    /\ UNCHANGED <<mgrChunks, getLoc, getNeighbour, getRet, raced>>
    /\ UNCHANGED offChunk

\* What comes after the linkNeighbours call number i.
AfterLink(i) == IF i < Len(LinkOrder) THEN "link" ELSE "insert"

\* A slip: the new chunk's slot is named by `to` instead of `from`.
MutChunkSlot(from) == GetOpposite(from)

\* The slot the new chunk's work item sets (part_000:134).
ChunkSlot(from) == from

\* A slip: the neighbour's slot is named by `from` instead of `to`.
MutNeighbourSlot(from) == from

\* The slot the neighbour's work item sets (part_000:132, 137).
NeighbourSlot(from) == GetOpposite(from)

\* linkNeighbours, lines 125-135: look the neighbour up; when it exists, enqueue
\* on the new chunk the work item that sets its slot `from`.
GetLinkChunk(p) ==
    /\ getPc[p] = "link"
    /\ LET from == LinkOrder[getDir[p]]
           neighbour == Lookup(NeighbourLoc(getLoc[p], from))
           chunk == getChunk[p]
       IN IF neighbour # Nil
            THEN /\ chunkQueue' = [chunkQueue EXCEPT ![chunk] =
                                     Append(@, [slot |-> ChunkSlot(from), n |-> neighbour])]
                 /\ getNeighbour' = [getNeighbour EXCEPT ![p] = neighbour]
                 /\ getPc' = [getPc EXCEPT ![p] = "linkNeighbour"]
                 /\ UNCHANGED getDir
            ELSE /\ getPc' = [getPc EXCEPT ![p] = AfterLink(getDir[p])]
                 /\ getDir' = [getDir EXCEPT ![p] = IF @ < Len(LinkOrder) THEN @ + 1 ELSE @]
                 /\ UNCHANGED <<chunkQueue, getNeighbour>>
    /\ UNCHANGED <<mgrChunks, chunkLoc, sideCache, getLoc, getChunk, getRet, loadCalls, raced>>
    /\ UNCHANGED offChunk

\* linkNeighbours, lines 136-138: enqueue on the neighbour the work item that
\* sets its slot `to`.
GetLinkNeighbour(p) ==
    /\ getPc[p] = "linkNeighbour"
    /\ LET from == LinkOrder[getDir[p]]
           neighbour == getNeighbour[p]
       IN chunkQueue' = [chunkQueue EXCEPT ![neighbour] =
                           Append(@, [slot |-> NeighbourSlot(from), n |-> getChunk[p]])]
    /\ getPc' = [getPc EXCEPT ![p] = AfterLink(getDir[p])]
    /\ getDir' = [getDir EXCEPT ![p] = IF @ < Len(LinkOrder) THEN @ + 1 ELSE @]
    /\ getNeighbour' = [getNeighbour EXCEPT ![p] = Nil]
    /\ UNCHANGED <<mgrChunks, chunkLoc, sideCache, getLoc, getChunk, getRet, loadCalls, raced>>
    /\ UNCHANGED offChunk

\* Get, lines 147-148: insert the chunk into the map and return it.
GetInsert(p) ==
    /\ getPc[p] = "insert"
    /\ mgrChunks' = [mgrChunks EXCEPT ![ChunkKey(getLoc[p])] = getChunk[p]]
    /\ getRet' = [getRet EXCEPT ![p] = [c |-> getChunk[p], called |-> TRUE]]
    /\ getPc' = [getPc EXCEPT ![p] = "idle"]
    /\ getChunk' = [getChunk EXCEPT ![p] = Nil]
    /\ UNCHANGED <<chunkLoc, sideCache, chunkQueue, getLoc, getDir, getNeighbour,
                   loadCalls, raced>>
    /\ UNCHANGED offChunk

\* A chunk's serial work stream runs its next work item: sideCacheSetNeighbour.
ChunkRun(c) ==
    /\ chunkQueue[c] # <<>>
    /\ LET item == Head(chunkQueue[c])
       IN sideCache' = [sideCache EXCEPT ![c][item.slot] = item.n]
    /\ chunkQueue' = [chunkQueue EXCEPT ![c] = Tail(@)]
    /\ UNCHANGED <<mgrChunks, chunkLoc, getPc, getLoc, getChunk, getDir, getNeighbour,
                   getRet, loadCalls, raced>>
    /\ UNCHANGED offChunk

ChunkNext ==
    \/ \E p \in Callers, loc \in Coords : GetBegin(p, loc)
    \/ \E p \in Callers : GetLoadFail(p)
    \/ \E p \in Callers : GetLoadOk(p)
    \/ \E p \in Callers : GetLinkChunk(p)
    \/ \E p \in Callers : GetLinkNeighbour(p)
    \/ \E p \in Callers : GetInsert(p)
    \/ \E c \in ChunkIds : ChunkRun(c)

-----------------------------------------------------------------------------
(***************************************************************************)
(* Player session and game loop                                            *)
(***************************************************************************)

\* Bounds of the player model.
MaxTime == 5          \* ticks of the world clock in one behaviour
MaxJoinTime == 1      \* connections are accepted while time <= MaxJoinTime
MaxWork == 2          \* work items waiting in the game loop's queue

Players == {"p1"}

chunkRadius == 10

\* The capacity of txQueue. StartPlayer makes the channel with 128 slots
\* (player.go:29); the model is checked with a small queue.
TxQueueCap == 3

ChunkSizeX == 16
ChunkSizeZ == 16

\* Positions are kept in half blocks, so that 8.5 is 17.
StartPosition == [x |-> 17, y |-> 130, z |-> 17]

\* Go's integer division, which truncates toward zero.
GoDiv(a, b) == IF a >= 0 THEN a \div b ELSE -((-a) \div b)

\* int32(f) of a float64 kept in half blocks: truncation toward zero.
Int32(h) == GoDiv(h, 2)

\* The values a loop `for v := c - chunkRadius; v < c + chunkRadius; v++` visits.
LoopRange(c) == [i \in 1 .. 2 * chunkRadius |-> c - chunkRadius + (i - 1)]

\* The two loops swapped: x outer, z inner.
MutLoopCoords(playerX, playerZ) ==
    LET xs == LoopRange(playerX)
        zs == LoopRange(playerZ)
        n  == Len(zs)
    IN [i \in 1 .. Len(xs) * n |-> [x |-> xs[((i - 1) \div n) + 1], z |-> zs[((i - 1) % n) + 1]]]

\* The coordinates visited by `for z ... { for x ... { } }`, in order.
LoopCoords(playerX, playerZ) ==
    LET xs == LoopRange(playerX)
        zs == LoopRange(playerZ)
        n  == Len(xs)
    IN [i \in 1 .. Len(zs) * n |-> [x |-> xs[((i - 1) % n) + 1], z |-> zs[((i - 1) \div n) + 1]]]

WritePreChunk(x, z, mode) == [kind |-> "PreChunk", x |-> x, z |-> z, mode |-> mode]
\* chunk := Get(x, z); WriteMapChunk(writer, chunk): the chunk is named by its coordinate.
WriteMapChunk(x, z) == [kind |-> "MapChunk", x |-> x, z |-> z]
WriteSpawnPosition(pos) == [kind |-> "SpawnPosition", pos |-> pos]
WritePlayerInventory == [kind |-> "PlayerInventory"]
WritePlayerPositionLook(pos, look, stance, flying) ==
    [kind |-> "PlayerPositionLook", pos |-> pos, look |-> look, stance |-> stance,
     flying |-> flying]
WriteTimeUpdate(t) == [kind |-> "TimeUpdate", time |-> t]

\* Player.sendChunks: what it writes to the writer.
sendChunks(pos) ==
    LET playerX == GoDiv(Int32(pos.x), ChunkSizeX)
        playerZ == GoDiv(Int32(pos.z), ChunkSizeZ)
        cs == LoopCoords(playerX, playerZ)
    IN [i \in 1 .. Len(cs) |-> WritePreChunk(cs[i].x, cs[i].z, TRUE)]
       \o [i \in 1 .. Len(cs) |-> WriteMapChunk(cs[i].x, cs[i].z)]

\* Player.postLogin: the buffer it sends on txQueue.
postLogin(pos, look) ==
    <<WriteSpawnPosition(pos)>>
    \o sendChunks(pos)
    \o <<WritePlayerInventory>>
    \o <<WritePlayerPositionLook(pos, look, 0, FALSE)>>

\* Player.SendTimeUpdate: the buffer it sends on txQueue.
SendTimeUpdate(t) == <<WriteTimeUpdate(t)>>

\* The packets whose handlers only log (player.go:41-69).
LoggedPackets == {"KeepAlive", "ChatMessage", "Flying", "PlayerPosition", "PlayerLook",
                  "PlayerDigging", "PlayerBlockPlacement"}

\* The packets that carry the client's position or orientation.
MovePackets == {"PlayerPosition", "PlayerLook"}

\* A position and an orientation a client reports, other than the initial ones.
ClientPositions == {[x |-> 19, y |-> 132, z |-> 21]}
ClientOrientations == {[rotation |-> 90, pitch |-> 45]}

\* No position or look packet has been handled yet.
NoPacket == [kind |-> "none", position |-> StartPosition,
             orientation |-> [rotation |-> 0, pitch |-> 0]]

\* The packets ReadPacket hands to the logging handlers: a position packet
\* carries a position, a look packet an orientation.
LoggedInputs ==
    {[kind |-> k, position |-> StartPosition, orientation |-> [rotation |-> 0, pitch |-> 0]] :
        k \in LoggedPackets \ MovePackets}
    \cup {[kind |-> "PlayerPosition", position |-> pos,
            orientation |-> [rotation |-> 0, pitch |-> 0]] : pos \in ClientPositions}
    \cup {[kind |-> "PlayerLook", position |-> StartPosition, orientation |-> o] :
            o \in ClientOrientations}

PlayerInitVars ==
    /\ spPc = [p \in Players |-> "new"]
    /\ rxPc = [p \in Players |-> "off"]
    /\ txPc = [p \in Players |-> "off"]
    /\ txBs = [p \in Players |-> <<>>]
    /\ position = [p \in Players |-> StartPosition]
    /\ orientation = [p \in Players |-> [rotation |-> 0, pitch |-> 0]]
    /\ conn = [p \in Players |-> "open"]
    /\ txQueue = [p \in Players |-> <<>>]
    /\ txClosed = [p \in Players |-> FALSE]
    /\ sent = [p \in Players |-> <<>>]
    /\ written = [p \in Players |-> <<>>]
    /\ workQueue = <<>>
    /\ glPending = <<>>
    /\ players = {}
    /\ time = 0
    /\ removed = [p \in Players |-> FALSE]
    /\ rxFailed = [p \in Players |-> FALSE]
    /\ rxLast = [p \in Players |-> NoPacket]

\* game.Enqueue(f): the work item joins the game loop's queue.
Enqueue(item) == workQueue' = Append(workQueue, item)

\* StartPlayer, lines 24-33: the player is constructed and its two tasks started.
StartPlayerSpawn(p) ==
    /\ spPc[p] = "new"
    /\ time <= MaxJoinTime
    /\ spPc' = [spPc EXCEPT ![p] = "spawned"]
    /\ position' = [position EXCEPT ![p] = StartPosition]
    /\ orientation' = [orientation EXCEPT ![p] = [rotation |-> 0, pitch |-> 0]]
    /\ rxPc' = [rxPc EXCEPT ![p] = "reading"]
    /\ txPc' = [txPc EXCEPT ![p] = "recv"]
    /\ UNCHANGED <<txBs, conn, txQueue, txClosed, sent, written, workQueue, glPending,
                   players, time, removed, rxFailed, rxLast>>
    /\ UNCHANGED offPlayer

\* StartPlayer, lines 35-38: the AddPlayer/postLogin work item is submitted.
StartPlayerEnqueue(p) ==
    /\ spPc[p] = "spawned"
    /\ Len(workQueue) < MaxWork
    /\ spPc' = [spPc EXCEPT ![p] = "started"]
    /\ Enqueue([op |-> "add", p |-> p])
    /\ UNCHANGED <<rxPc, txPc, txBs, position, orientation, conn, txQueue, txClosed, sent,
                   written, glPending, players, time, removed, rxFailed, rxLast>>
    /\ UNCHANGED offPlayer

\* The client closes its end of the socket.
ClientClose(p) ==
    /\ spPc[p] # "new"
    /\ conn[p] = "open"
    /\ conn' = [conn EXCEPT ![p] = "peerClosed"]
    /\ UNCHANGED <<spPc, rxPc, txPc, txBs, position, orientation, txQueue, txClosed, sent,
                   written, workQueue, glPending, players, time, removed, rxFailed, rxLast>>
    /\ UNCHANGED offPlayer

\* A slip: the handler answers the packet with a time update, sent on the
\* transmit queue from the reader task.
MutRxLogged(p, pkt) ==
    /\ rxPc[p] = "reading"
    /\ conn[p] = "open"
    /\ pkt \in LoggedInputs
    /\ Len(txQueue[p]) < TxQueueCap
    /\ rxLast' = [rxLast EXCEPT ![p] = IF pkt.kind \in MovePackets THEN pkt ELSE @]
    /\ txQueue' = [txQueue EXCEPT ![p] = Append(@, <<WriteTimeUpdate(time)>>)]
    /\ UNCHANGED <<spPc, rxPc, txPc, txBs, position, orientation, conn, txClosed,
                   sent, written, workQueue, glPending, players, time, removed, rxFailed>>
    /\ UNCHANGED offPlayer

\* ReceiveLoop: ReadPacket decodes a packet whose handler only logs
\* (PacketKeepAlive ... PacketPlayerBlockPlacement), and the loop goes on.
RxLogged(p, pkt) ==
    /\ rxPc[p] = "reading"
    /\ conn[p] = "open"
    /\ pkt \in LoggedInputs
    /\ rxLast' = [rxLast EXCEPT ![p] = IF pkt.kind \in MovePackets THEN pkt ELSE @]
    /\ UNCHANGED <<spPc, rxPc, txPc, txBs, position, orientation, conn, txQueue, txClosed,
                   sent, written, workQueue, glPending, players, time, removed, rxFailed>>
    /\ UNCHANGED offPlayer

\* What PacketDisconnect submits to the game loop (player.go:73).
DisconnectItem(p) == [op |-> "remove", p |-> p]

\* ReceiveLoop: ReadPacket decodes a disconnect packet; PacketDisconnect submits
\* the RemovePlayer work item, and the loop goes on.
RxDisconnect(p) ==
    /\ rxPc[p] = "reading"
    /\ conn[p] = "open"
    /\ Len(workQueue) < MaxWork
    /\ Enqueue(DisconnectItem(p))
    /\ UNCHANGED <<spPc, rxPc, txPc, txBs, position, orientation, conn, txQueue, txClosed,
                   sent, written, glPending, players, time, removed, rxFailed, rxLast>>
    /\ UNCHANGED offPlayer

\* ReceiveLoop, lines 78-82: ReadPacket returns an error (the peer closed the
\* socket, or the bytes do not decode); the loop logs it and returns.
RxError(p) ==
    /\ rxPc[p] = "reading"
    /\ conn[p] \in {"open", "peerClosed"}
    /\ rxPc' = [rxPc EXCEPT ![p] = "done"]
    /\ rxFailed' = [rxFailed EXCEPT ![p] = TRUE]
    /\ UNCHANGED <<spPc, txPc, txBs, position, orientation, conn, txQueue, txClosed, sent,
                   written, workQueue, glPending, players, time, removed, rxLast>>
    /\ UNCHANGED offPlayer

\* A receive that takes the newest slice of the channel instead of the oldest.
MutChanRecv(q) == [val |-> q[Len(q)], rest |-> SubSeq(q, 1, Len(q) - 1)]

\* `<-ch` on a channel holding q: the oldest element leaves the channel.
ChanRecv(q) == [val |-> Head(q), rest |-> Tail(q)]

\* TransmitLoop, line 88: receive from txQueue. A closed, empty channel yields
\* the zero value (a nil slice) at once.
TxRecv(p) ==
    /\ txPc[p] = "recv"
    /\ txQueue[p] # <<>> \/ txClosed[p]
    /\ IF txQueue[p] # <<>>
         THEN /\ txBs' = [txBs EXCEPT ![p] = ChanRecv(txQueue[p]).val]
              /\ txQueue' = [txQueue EXCEPT ![p] = ChanRecv(txQueue[p]).rest]
         ELSE /\ txBs' = [txBs EXCEPT ![p] = <<>>]
              /\ UNCHANGED txQueue
    /\ txPc' = [txPc EXCEPT ![p] = "write"]
    /\ UNCHANGED <<spPc, rxPc, position, orientation, conn, txClosed, sent, written,
                   workQueue, glPending, players, time, removed, rxFailed, rxLast>>
    /\ UNCHANGED offPlayer

\* TransmitLoop, lines 89-90: conn.Write(bs) succeeds; an empty slice puts
\* nothing on the wire.
TxWriteOk(p) ==
    /\ txPc[p] = "write"
    /\ conn[p] \in {"open", "peerClosed"}
    /\ written' = [written EXCEPT ![p] = IF txBs[p] = <<>> THEN @ ELSE Append(@, txBs[p])]
    /\ txBs' = [txBs EXCEPT ![p] = <<>>]
    /\ txPc' = [txPc EXCEPT ![p] = "recv"]
    /\ UNCHANGED <<spPc, rxPc, position, orientation, conn, txQueue, txClosed, sent,
                   workQueue, glPending, players, time, removed, rxFailed, rxLast>>
    /\ UNCHANGED offPlayer

\* TransmitLoop, lines 89-93: conn.Write(bs) fails; the loop logs it and returns.
TxWriteFail(p) ==
    /\ txPc[p] = "write"
    /\ conn[p] \in {"peerClosed", "closed"}
    /\ txBs' = [txBs EXCEPT ![p] = <<>>]
    /\ txPc' = [txPc EXCEPT ![p] = "done"]
    /\ UNCHANGED <<spPc, rxPc, position, orientation, conn, txQueue, txClosed, sent,
                   written, workQueue, glPending, players, time, removed, rxFailed, rxLast>>
    /\ UNCHANGED offPlayer

\* The game loop is between work items.
GameIdle == glPending = <<>>

\* The game loop runs the work item StartPlayer submitted: game.AddPlayer(player),
\* then player.postLogin(), which ends in the send of line 122.
GameRunAdd ==
    /\ GameIdle
    /\ workQueue # <<>>
    /\ Head(workQueue).op = "add"
    /\ LET p == Head(workQueue).p
       IN /\ players' = players \cup {p}
          /\ glPending' = <<[p |-> p, bs |-> postLogin(position[p], orientation[p])]>>
    /\ workQueue' = Tail(workQueue)
    /\ UNCHANGED <<spPc, rxPc, txPc, txBs, position, orientation, conn, txQueue, txClosed,
                   sent, written, time, removed, rxFailed, rxLast>>
    /\ UNCHANGED offPlayer

\* The game loop runs the work item PacketDisconnect submitted:
\* game.RemovePlayer(player) drops the player and closes its transmit queue.
GameRunRemove ==
    /\ GameIdle
    /\ workQueue # <<>>
    /\ Head(workQueue).op = "remove"
    /\ LET p == Head(workQueue).p
       IN /\ players' = players \ {p}
          /\ txClosed' = [txClosed EXCEPT ![p] = TRUE]
          /\ removed' = [removed EXCEPT ![p] = TRUE]
    /\ workQueue' = Tail(workQueue)
    /\ UNCHANGED <<spPc, rxPc, txPc, txBs, position, orientation, conn, txQueue, sent,
                   written, glPending, time, rxFailed, rxLast>>
    /\ UNCHANGED offPlayer

\* All the orders in which a set can be walked.
Orders(S) == {s \in [1 .. Cardinality(S) -> S] : \A i, j \in DOMAIN s : i # j => s[i] # s[j]}

\* The game loop's tick: the world clock advances and every registered player is
\* sent a time update (player.SendTimeUpdate), in the map's iteration order.
GameTick ==
    /\ GameIdle
    /\ time < MaxTime
    /\ time' = time + 1
    /\ \E order \in Orders(players) :
          glPending' = [i \in DOMAIN order |-> [p |-> order[i], bs |-> SendTimeUpdate(time')]]
    /\ UNCHANGED <<spPc, rxPc, txPc, txBs, position, orientation, conn, txQueue, txClosed,
                   sent, written, workQueue, players, removed, rxFailed, rxLast>>
    /\ UNCHANGED offPlayer

\* A channel send `txQueue <- bs` can proceed: the buffer has room.
CanSend(p) == Len(txQueue[p]) < TxQueueCap

\* The game loop performs the send it stands at (player.go:122 or 128). A send
\* on a closed channel panics; the loop drops the work item and goes on.
GameSend ==
    /\ glPending # <<>>
    /\ LET p == Head(glPending).p
           bs == Head(glPending).bs
       IN IF txClosed[p]
            THEN /\ glPending' = <<>>
                 /\ UNCHANGED <<txQueue, sent>>
            ELSE /\ CanSend(p)
                 /\ txQueue' = [txQueue EXCEPT ![p] = Append(@, bs)]
                 /\ sent' = [sent EXCEPT ![p] = Append(@, bs)]
                 /\ glPending' = Tail(glPending)
    /\ UNCHANGED <<spPc, rxPc, txPc, txBs, position, orientation, conn, txClosed, written,
                   workQueue, players, time, removed, rxFailed, rxLast>>
    /\ UNCHANGED offPlayer

PlayerNext ==
    \/ \E p \in Players : StartPlayerSpawn(p)
    \/ \E p \in Players : StartPlayerEnqueue(p)
    \/ \E p \in Players : ClientClose(p)
    \/ \E p \in Players, pkt \in LoggedInputs : RxLogged(p, pkt)
    \/ \E p \in Players : RxDisconnect(p)
    \/ \E p \in Players : RxError(p)
    \/ \E p \in Players : TxRecv(p)
    \/ \E p \in Players : TxWriteOk(p)
    \/ \E p \in Players : TxWriteFail(p)
    \/ GameRunAdd
    \/ GameRunRemove
    \/ GameTick
    \/ GameSend

-----------------------------------------------------------------------------
(***************************************************************************)
(* ChunkManager.ChunksInRadius                                             *)
(***************************************************************************)

\* Bounds of the ChunksInRadius model. ChunkRadius is a constant of the types
\* package (10 by default); the model is checked with a small radius.
ChunkRadius == 1
MaxCirFails == 2      \* LoadChunk failures in one behaviour

\* The coordinates ChunksInRadius is called with.
CirCenters == {[X |-> 0, Z |-> 0], [X |-> 5, Z |-> -3]}

\* What mgr.Get returns: a chunk, named by the coordinate it was loaded for, or nil.
NilChunk == [nil |-> TRUE, X |-> 0, Z |-> 0]
ChunkOf(loc) == [nil |-> FALSE, X |-> loc.X, Z |-> loc.Z]

\* The values a loop `for v := c - ChunkRadius; v <= c+ChunkRadius; v++` visits.
CirRange(c) == [i \in 1 .. 2 * ChunkRadius + 1 |-> c - ChunkRadius + (i - 1)]

\* The number of iterations of the two loops.
CirCount == (2 * ChunkRadius + 1) * (2 * ChunkRadius + 1)

\* curChunkXz in iteration number i of `for z ... { for x ... { } }`.
CirCoordAt(loc, i) ==
    LET xs == CirRange(loc.X)
        zs == CirRange(loc.Z)
        n  == Len(xs)
    IN [X |-> xs[((i - 1) % n) + 1], Z |-> zs[((i - 1) \div n) + 1]]

\* The coordinate the next iteration visits.
CirCur == CirCoordAt(cirLoc, cirI + 1)

RadiusInitVars ==
    /\ cirLoc \in CirCenters
    /\ cirChunks \in SUBSET {cirLoc, [X |-> cirLoc.X + 1, Z |-> cirLoc.Z]}
    /\ cirI = 0
    /\ cirOut = <<>>
    /\ cirFails = 0
    /\ cirClosed = FALSE

\* `c <- item` (part_000:170): the consumer receives the item.
CirSend(out, item) == Append(out, item)

\* One iteration whose mgr.Get finds the chunk in the map (part_000:109-111).
CirGetHit ==
    /\ ~cirClosed /\ cirI < CirCount
    /\ CirCur \in cirChunks
    /\ cirOut' = CirSend(cirOut, ChunkOf(CirCur))
    /\ cirI' = cirI + 1
    /\ UNCHANGED <<cirLoc, cirChunks, cirFails, cirClosed>>
    /\ UNCHANGED offRadius

\* One iteration whose mgr.Get loads the chunk and inserts it (part_000:113-148).
CirGetLoad ==
    /\ ~cirClosed /\ cirI < CirCount
    /\ CirCur \notin cirChunks
    /\ cirChunks' = cirChunks \cup {CirCur}
    /\ cirOut' = CirSend(cirOut, ChunkOf(CirCur))
    /\ cirI' = cirI + 1
    /\ UNCHANGED <<cirLoc, cirFails, cirClosed>>
    /\ UNCHANGED offRadius

\* One iteration whose mgr.Get fails to load the chunk and returns nil
\* (part_000:113-117); the nil is what line 170 sends.
CirGetFail ==
    /\ ~cirClosed /\ cirI < CirCount
    /\ CirCur \notin cirChunks
    /\ cirFails < MaxCirFails
    /\ cirFails' = cirFails + 1
    /\ cirOut' = CirSend(cirOut, NilChunk)
    /\ cirI' = cirI + 1
    /\ UNCHANGED <<cirLoc, cirChunks, cirClosed>>
    /\ UNCHANGED offRadius

\* The loops are over: close(c) (part_000:173).
CirClose ==
    /\ ~cirClosed /\ cirI = CirCount
    /\ cirClosed' = TRUE
    /\ UNCHANGED <<cirLoc, cirChunks, cirI, cirOut, cirFails>>
    /\ UNCHANGED offRadius

RadiusNext ==
    \/ CirGetHit
    \/ CirGetLoad
    \/ CirGetFail
    \/ CirClose

-----------------------------------------------------------------------------
(***************************************************************************)
(* Inventory slots                                                         *)
(***************************************************************************)

SlotQuantityMax == 64

ItemIdNull == -1

\* The item types, uses and quantities the model's slots hold.
ItemIds == {1, 2}
ItemUsesSet == {0, 1}

SlotNames == {"s", "src"}

\* Slot.Init: the empty slot.
SlotInit == [ItemType |-> ItemIdNull, Quantity |-> 0, Uses |-> 0]

\* The slots the program holds: empty, or some items of one type.
Slots ==
    {SlotInit} \cup
    {[ItemType |-> t, Quantity |-> q, Uses |-> u] :
        t \in ItemIds, q \in 1 .. SlotQuantityMax, u \in ItemUsesSet}

\* Slot.setQuantity
setQuantity(s, quantity) ==
    IF quantity = 0
      THEN [ItemType |-> ItemIdNull, Quantity |-> 0, Uses |-> 0]
      ELSE [s EXCEPT !.Quantity = quantity]

\* A slip: the Uses of the two slots are not compared.
MutMismatch(s, src) == s.ItemType # ItemIdNull /\ s.ItemType # src.ItemType

\* Slot.Add, lines 53-60: the subject holds items that do not stack with src's.
Mismatch(s, src) ==
    s.ItemType # ItemIdNull /\ (s.ItemType # src.ItemType \/ s.Uses # src.Uses)

\* A slip: the transfer is not capped by the room left in the subject.
MutToTransfer(s, src) == src.Quantity

\* Slot.Add, lines 67-70: the number of items to move.
ToTransfer(s, src) ==
    IF s.Quantity + src.Quantity > SlotQuantityMax
      THEN SlotQuantityMax - s.Quantity
      ELSE src.Quantity

\* Slot.Add: the two slots after s.Add(src).
Add(s, src) ==
    IF Mismatch(s, src) THEN [s |-> s, src |-> src]
    ELSE IF s.Quantity >= SlotQuantityMax THEN [s |-> s, src |-> src]
    ELSE LET toTransfer == ToTransfer(s, src)
             typed == [s EXCEPT !.ItemType = src.ItemType, !.Uses = src.Uses]
         IN [s   |-> setQuantity(typed, s.Quantity + toTransfer),
             src |-> setQuantity(src, src.Quantity - toTransfer)]

SlotInitVars ==
    /\ slots \in [SlotNames -> Slots]
    /\ slotLast = [op |-> "none", dst |-> "s", from |-> "src", before |-> slots]

\* slots[dst].Add(&slots[from]) for two different slots.
SlotAdd(dst, from) ==
    /\ dst # from
    /\ slots' = [slots EXCEPT ![dst] = Add(slots[dst], slots[from]).s,
                              ![from] = Add(slots[dst], slots[from]).src]
    /\ slotLast' = [op |-> "Add", dst |-> dst, from |-> from, before |-> slots]
    /\ UNCHANGED offSlot

\* slots[dst].Init()
SlotReset(dst) ==
    /\ slots' = [slots EXCEPT ![dst] = SlotInit]
    /\ slotLast' = [op |-> "Init", dst |-> dst, from |-> dst, before |-> slots]
    /\ UNCHANGED offSlot

SlotNext ==
    \/ \E dst, from \in SlotNames : SlotAdd(dst, from)
    \/ \E dst \in SlotNames : SlotReset(dst)

-----------------------------------------------------------------------------
(***************************************************************************)
(* Packet codec: strings                                                   *)
(***************************************************************************)

\* Bound of the codec model: a string is at most MaxRuns runs of one character.
MaxRuns == 2

MaxInt16 == 32767

\* The characters of the model's strings: one of each UTF-8 length, the last
\* one outside the basic plane. The lengths of the runs.
CodePoints == {65, 233, 8364, 128512}
RunLens == {1, 2, 16384, 32767, 32768}

\* A string is kept as its runs: <<[cp |-> 65, n |-> 3]>> is "AAA". Neighbouring
\* runs hold different characters.
Strings ==
    {s \in UNION {[1 .. k -> [cp : CodePoints, n : RunLens]] : k \in 0 .. MaxRuns} :
        \A i \in 1 .. Len(s) - 1 : s[i].cp # s[i + 1].cp}

\* The number of bytes of a character in UTF-8.
Utf8Bytes(cp) == IF cp < 128 THEN 1 ELSE IF cp < 2048 THEN 2 ELSE IF cp < 65536 THEN 3 ELSE 4

\* The 16-bit code units of a character: itself, or a surrogate pair.
Utf16(cp) ==
    IF cp < 65536 THEN <<cp>>
    ELSE <<55296 + ((cp - 65536) \div 1024), 56320 + ((cp - 65536) % 1024)>>

\* value.Len(): the length of the string in bytes.
RECURSIVE StringLen(_)
StringLen(s) == IF s = <<>> THEN 0 ELSE s[1].n * Utf8Bytes(s[1].cp) + StringLen(Tail(s))

\* decodeUtf8: the code units of a string, as runs of a repeated unit pattern.
decodeUtf8(s) == [i \in 1 .. Len(s) |-> [u |-> Utf16(s[i].cp), n |-> s[i].n]]

\* The number of code units in a sequence of unit runs.
RECURSIVE UnitCount(_)
UnitCount(us) == IF us = <<>> THEN 0 ELSE Len(us[1].u) * us[1].n + UnitCount(Tail(us))

\* The first k code units of a sequence of unit runs.
RECURSIVE TakeUnits(_, _)
TakeUnits(us, k) ==
    IF k = 0 \/ us = <<>> THEN <<>>
    ELSE LET h == us[1]
             size == Len(h.u) * h.n
             full == k \div Len(h.u)
         IN IF size <= k THEN <<h>> \o TakeUnits(Tail(us), k - size)
            ELSE (IF full > 0 THEN <<[u |-> h.u, n |-> full]>> ELSE <<>>)
                 \o (IF k % Len(h.u) > 0 THEN <<[u |-> <<h.u[1]>>, n |-> 1]>> ELSE <<>>)

\* encodeUtf8: code units reassembled into characters, a surrogate pair giving
\* one character outside the basic plane.
encodeUtf8(us) ==
    [i \in 1 .. Len(us) |->
        [cp |-> IF Len(us[i].u) = 2
                  THEN 65536 + (us[i].u[1] - 55296) * 1024 + (us[i].u[2] - 56320)
                  ELSE us[i].u[1],
         n |-> us[i].n]]

\* binary.BigEndian.PutUint16 of uint16(v), and binary.BigEndian.Uint16.
PutUint16(v) == <<(v % 65536) \div 256, v % 256>>
Uint16(b) == b[1] * 256 + b[2]

\* int16(v) of a 16-bit pattern, int8(v) of an 8-bit pattern.
AsInt16(v) == IF v >= 32768 THEN v - 65536 ELSE v
AsInt8(v) == IF v >= 128 THEN v - 256 ELSE v

\* What a writer holds: bytes, followed by the 16-bit code units binary.Write
\* put after them.
EmptyWire == [bytes |-> <<>>, units |-> <<>>]

\* A slip: the length is compared with the largest unsigned 16-bit value.
MutStrTooLong(lengthInt) == lengthInt > 65535

\* writeData, reflect.String, line 267.
StrTooLong(lengthInt) == lengthInt > MaxInt16

\* writeData, reflect.String (part_001:265-275), on an empty writer.
writeString(s) ==
    LET lengthInt == StringLen(s)
    IN IF StrTooLong(lengthInt)
         THEN [err |-> "ErrorStrTooLong", wire |-> EmptyWire]
         ELSE [err |-> "nil",
               wire |-> [bytes |-> PutUint16(lengthInt), units |-> decodeUtf8(s)]]

\* readData, reflect.String (part_001:159-172), on a reader holding wire.
readString(wire) ==
    IF Len(wire.bytes) < 2 THEN [err |-> "EOF", val |-> <<>>]
    ELSE LET length == AsInt16(Uint16(wire.bytes))
         IN IF length < 0 THEN [err |-> "ErrorLengthNegative", val |-> <<>>]
            ELSE IF UnitCount(wire.units) < length THEN [err |-> "EOF", val |-> <<>>]
            ELSE [err |-> "nil", val |-> encodeUtf8(TakeUnits(wire.units, length))]

-----------------------------------------------------------------------------
(***************************************************************************)
(* Packet codec: records of bools and integers                             *)
(***************************************************************************)

\* The bytes of the model's inputs: 0, 1, a byte that is neither, and a byte
\* with the high bit set.
ByteSamples == {0, 1, 2, 255}

\* The record type the model reads and writes: a bool, signed and unsigned
\* integers of 8 and 16 bits, and a nested record.
PacketType ==
    [kind |-> "Struct",
     fields |-> <<[kind |-> "Bool"], [kind |-> "Int8"], [kind |-> "Int16"],
                  [kind |-> "Struct",
                   fields |-> <<[kind |-> "Uint8"], [kind |-> "Uint16"]>>]>>]

\* The number of bytes a value of a type takes on the wire.
RECURSIVE WireSize(_)
RECURSIVE WireSizeFields(_, _)
WireSizeFields(fields, i) ==
    IF i > Len(fields) THEN 0 ELSE WireSize(fields[i]) + WireSizeFields(fields, i + 1)
WireSize(typ) ==
    CASE typ.kind = "Struct" -> WireSizeFields(typ.fields, 1)
      [] typ.kind \in {"Bool", "Int8", "Uint8"} -> 1
      [] typ.kind \in {"Int16", "Uint16"} -> 2

\* The byte strings the model hands to ReadPacket: whole packets and short ones.
PacketInputs == UNION {[1 .. k -> ByteSamples] : k \in 0 .. WireSize(PacketType)}

\* io.ReadFull(reader, scratch[0:n]) on a reader holding bytes.
ReadFull(bytes, n) ==
    IF Len(bytes) >= n
      THEN [err |-> "nil", got |-> SubSeq(bytes, 1, n), rest |-> SubSeq(bytes, n + 1, Len(bytes))]
      ELSE [err |-> "EOF", got |-> <<>>, rest |-> <<>>]

\* readData (part_001:68-181) for a value of type typ on a reader holding bytes:
\* the error, the value set and the bytes left in the reader.
RECURSIVE readData(_, _)
RECURSIVE readFields(_, _, _)
readFields(fields, i, st) ==
    IF i > Len(fields) THEN st
    ELSE LET r == readData(fields[i], st.rest)
         IN IF r.err # "nil" THEN [err |-> r.err, val |-> st.val, rest |-> r.rest]
            ELSE readFields(fields, i + 1,
                            [err |-> "nil", val |-> Append(st.val, r.val), rest |-> r.rest])
readData(typ, bytes) ==
    IF typ.kind = "Struct"
      THEN readFields(typ.fields, 1, [err |-> "nil", val |-> <<>>, rest |-> bytes])
      ELSE LET r == ReadFull(bytes, WireSize(typ))
           IN IF r.err # "nil" THEN [err |-> r.err, val |-> <<>>, rest |-> r.rest]
              ELSE [err |-> "nil",
                    val |-> CASE typ.kind = "Bool"   -> r.got[1] # 0
                              [] typ.kind = "Int8"   -> AsInt8(r.got[1])
                              [] typ.kind = "Int16"  -> AsInt16(Uint16(r.got))
                              [] typ.kind = "Uint8"  -> r.got[1]
                              [] typ.kind = "Uint16" -> Uint16(r.got),
                    rest |-> r.rest]

\* writeData (part_001:193-285) for a value val of type typ: the bytes written.
RECURSIVE writeData(_, _)
RECURSIVE writeFields(_, _, _)
writeFields(fields, val, i) ==
    IF i > Len(fields) THEN <<>>
    ELSE writeData(fields[i], val[i]) \o writeFields(fields, val, i + 1)
writeData(typ, val) ==
    CASE typ.kind = "Struct" -> writeFields(typ.fields, val, 1)
      [] typ.kind = "Bool"   -> IF val THEN <<1>> ELSE <<0>>
      [] typ.kind = "Int8"   -> <<val % 256>>
      [] typ.kind = "Int16"  -> PutUint16(val)
      [] typ.kind = "Uint8"  -> <<val % 256>>
      [] typ.kind = "Uint16" -> PutUint16(val)

(***************************************************************************)
(* Packet codec: the calls                                                 *)
(***************************************************************************)

\* The inputs of the codec model: a string to write and read back, or the
\* bytes of a packet to read and write back.
CodecInputs ==
    {[kind |-> "string", s |-> s, b |-> <<>>] : s \in Strings}
    \cup {[kind |-> "packet", s |-> <<>>, b |-> b] : b \in PacketInputs}

CodecInitVars ==
    /\ codecIn \in CodecInputs
    /\ codecPc = "start"
    /\ codecWire = EmptyWire
    /\ codecVal = <<>>
    /\ codecErr = "nil"

\* WritePacket of a string field to an empty writer.
CodecWriteString ==
    /\ codecPc = "start" /\ codecIn.kind = "string"
    /\ LET r == writeString(codecIn.s)
       IN /\ codecWire' = r.wire
          /\ codecErr' = r.err
          /\ codecPc' = IF r.err = "nil" THEN "written" ELSE "writeFailed"
    /\ UNCHANGED <<codecIn, codecVal>>
    /\ UNCHANGED offCodec

\* ReadPacket of a string field from what WritePacket wrote.
CodecReadString ==
    /\ codecPc = "written" /\ codecIn.kind = "string"
    /\ LET r == readString(codecWire)
       IN /\ codecVal' = r.val
          /\ codecErr' = r.err
          /\ codecPc' = IF r.err = "nil" THEN "read" ELSE "readFailed"
    /\ UNCHANGED <<codecIn, codecWire>>
    /\ UNCHANGED offCodec

\* ReadPacket of a record from the input bytes.
CodecReadPacket ==
    /\ codecPc = "start" /\ codecIn.kind = "packet"
    /\ LET r == readData(PacketType, codecIn.b)
       IN /\ codecVal' = r.val
          /\ codecErr' = r.err
          /\ codecPc' = IF r.err = "nil" THEN "read" ELSE "readFailed"
    /\ UNCHANGED <<codecIn, codecWire>>
    /\ UNCHANGED offCodec

\* WritePacket of the record ReadPacket decoded, to an empty writer.
CodecWritePacket ==
    /\ codecPc = "read" /\ codecIn.kind = "packet"
    /\ codecWire' = [bytes |-> writeData(PacketType, codecVal), units |-> <<>>]
    /\ codecErr' = "nil"
    /\ codecPc' = "written"
    /\ UNCHANGED <<codecIn, codecVal>>
    /\ UNCHANGED offCodec

CodecNext ==
    \/ CodecWriteString
    \/ CodecReadString
    \/ CodecReadPacket
    \/ CodecWritePacket

-----------------------------------------------------------------------------
(***************************************************************************)
(* Properties of the chunk manager (checked under ChunkSpec)               *)
(***************************************************************************)

\* No Get is in progress and every chunk has run all its work items.
ChunkQuiescent ==
    /\ \A p \in Callers : getPc[p] = "idle"
    /\ \A c \in ChunkIds : chunkQueue[c] = <<>>

\* The chunk objects constructed for coordinate loc.
ChunksAt(loc) == {c \in ChunkIds : chunkLoc[c] = loc}

\* C1: concurrent Get calls for one coordinate construct a single chunk object
\* for that key, and every caller gets that same object.
C1_SingleChunkPerKey ==
    /\ \A a, b \in ChunkIds : chunkLoc[a] = chunkLoc[b] => a = b
    /\ \A p, q \in Callers :
          (/\ getRet[p].called /\ getRet[q].called
           /\ getLoc[p] = getLoc[q]
           /\ getRet[p].c # Nil /\ getRet[q].c # Nil)
          => getRet[p].c = getRet[q].c

\* C9: when the Get calls ran one after the other and all enqueued chunk work
\* items have run, every chunk's slot for a direction holds exactly the chunk
\* loaded at the neighbouring coordinate (A's east slot is B and B's west slot
\* is A when B is A's east neighbour), and every other slot is still empty.
C9_NeighboursLinked ==
    (ChunkQuiescent /\ ~raced) =>
        \A a \in ChunkIds : \A d \in Dirs :
            sideCache[a][d] = Lookup(NeighbourLoc(chunkLoc[a], d))

\* C9 witness: A was loaded, then its east neighbour B, then a third chunk, the
\* work items have run, and A and B hold each other.
C9_Witness ==
    /\ ChunkQuiescent /\ ~raced
    /\ Len(chunkLoc) = 3
    /\ chunkLoc[2] = NeighbourLoc(chunkLoc[1], ChunkSideEast)
    /\ sideCache[1][ChunkSideEast] = 2
    /\ sideCache[2][ChunkSideWest] = 1

\* Chunk b is the entry of the loaded-chunk map for its coordinate.
InMap(b) == Lookup(chunkLoc[b]) = b

LinkHalfDone(a, b) ==
    \E p \in Callers :
        /\ getPc[p] = "linkNeighbour"
        /\ {getChunk[p], getNeighbour[p]} = {a, b}

\* The link between a and b is settled: neither has a work item left to run and
\* no Get stands between the two Enqueue calls of their link.
LinkSettled(a, b) ==
    /\ chunkQueue[a] = <<>>
    /\ chunkQueue[b] = <<>>
    /\ ~LinkHalfDone(a, b)

GetReturnedNil(q, loc) ==
    /\ getPc[q] = "idle"
    /\ getLoc[q] = loc
    /\ getRet[q] = [c |-> Nil, called |-> TRUE]

\* C11: when LoadChunk fails, Get returns nil, leaves the loaded-chunk map
\* unchanged, constructs no chunk and enqueues no neighbour-link work item;
\* a later Get for a coordinate whose load failed, still absent from the map,
\* goes to the store again, and when that load succeeds Get returns a chunk of
\* that coordinate.
C11_LoadFailureNotCached ==
    [][\A p \in Callers :
          /\ GetLoadFail(p) =>
                /\ getPc'[p] = "idle"
                /\ getRet'[p] = [c |-> Nil, called |-> TRUE]
                /\ mgrChunks' = mgrChunks
                /\ chunkLoc' = chunkLoc
                /\ chunkQueue' = chunkQueue
                /\ loadCalls' = loadCalls + 1
          /\ \A loc \in Coords :
                (/\ Lookup(loc) = Nil
                 /\ \E q \in Callers : GetReturnedNil(q, loc)
                 /\ GetBegin(p, loc)) => getPc'[p] = "load"
          /\ GetInsert(p) =>
                /\ getRet'[p].called
                /\ getRet'[p].c # Nil
                /\ chunkLoc[getRet'[p].c] = getLoc[p]
                /\ mgrChunks'[ChunkKey(getLoc[p])] = getRet'[p].c]_vars

\* C11 witness: Get calls that did not overlap; one caller's Get for a
\* coordinate returned nil, and the other caller's later Get for the same
\* coordinate went to the store again and returned the chunk.
C11_Witness ==
    \E p, q \in Callers :
        /\ p # q /\ ~raced
        /\ GetReturnedNil(q, getLoc[p])
        /\ getPc[p] = "idle" /\ getRet[p].called
        /\ getRet[p].c # Nil
        /\ chunkLoc[getRet[p].c] = getLoc[p]
        /\ loadCalls >= 2

-----------------------------------------------------------------------------
(***************************************************************************)
(* Properties of the player session (checked under Spec)                   *)
(***************************************************************************)

\* The game loop stands at a send into a full txQueue whose writer has returned:
\* nobody will ever make room, and no later work item or tick runs.
GameLoopStalled ==
    /\ glPending # <<>>
    /\ LET p == Head(glPending).p
       IN /\ ~txClosed[p]
          /\ ~CanSend(p)
          /\ txPc[p] = "done"

\* C2: the game loop never blocks on a send into a player's transmit queue, also
\* when that player's writer has stopped draining and the queue is full.
C2_GameLoopNeverBlocks == ~GameLoopStalled

\* The game loop has run every work item submitted so far.
GameDrained == workQueue = <<>> /\ GameIdle

\* A RemovePlayer work item for p is waiting or has run.
DisconnectSubmitted(p) ==
    \/ removed[p]
    \/ \E i \in DOMAIN workQueue : workQueue[i] = DisconnectItem(p)

\* Player p was admitted by the game loop and its post-login stream was sent.
Admitted(p) == spPc[p] = "started" /\ sent[p] # <<>>

\* C3: whenever ReadPacket returned an error in a player's reader task, the
\* socket has been closed and a disconnect work item has been submitted.
C3_ReadErrorDisconnects ==
    \A p \in Players : rxFailed[p] => (conn[p] = "closed" /\ DisconnectSubmitted(p))

\* TransmitLoop has nothing left to write: the queue is empty and no slice is in
\* its hands.
WriterDrained(p) == txQueue[p] = <<>> /\ txPc[p] # "write"

\* C4: after an admitted player's session has ended by a read error (the client
\* closed the socket) and the game loop has run all submitted work, the player's
\* transmit queue is closed, and the writer has terminated once nothing is left
\* to write.
C4_SessionEndStopsWriter ==
    \A p \in Players :
        (Admitted(p) /\ rxFailed[p] /\ GameDrained) =>
            /\ txClosed[p]
            /\ WriterDrained(p) => txPc[p] = "done"

\* C5: once the game loop has run the work item of a disconnect packet received
\* from an admitted player, the player is removed from the game and the player's
\* connection is closed.
C5_DisconnectRemovesAndCloses ==
    \A p \in Players :
        (Admitted(p) /\ removed[p] /\ GameDrained) => (p \notin players /\ conn[p] = "closed")

\* Coordinate a comes before coordinate b in row-major order, Z outer, X inner.
RowMajorBefore(a, b) == a.z < b.z \/ (a.z = b.z /\ a.x < b.x)

\* The packets of stream s whose kind is k, as the set of their places.
PlacesOf(s, k) == {i \in DOMAIN s : s[i].kind = k}

\* Stream s is: spawn position, n pre-chunks in row-major order, the n map
\* chunks of the same coordinates in the same order, inventory, position/look.
PostLoginOrdered(s) ==
    LET n == Cardinality(PlacesOf(s, "PreChunk"))
    IN /\ Len(s) = 2 * n + 3
       /\ s[1].kind = "SpawnPosition"
       /\ \A i \in 1 .. n :
             /\ s[1 + i].kind = "PreChunk"
             /\ s[1 + n + i].kind = "MapChunk"
             /\ s[1 + n + i].x = s[1 + i].x
             /\ s[1 + n + i].z = s[1 + i].z
             /\ i < n => RowMajorBefore(s[1 + i], s[2 + i])
       /\ s[2 * n + 2].kind = "PlayerInventory"
       /\ s[2 * n + 3].kind = "PlayerPositionLook"

Square(cx, cz, r) == {[x |-> x, z |-> z] : x \in (cx - r) .. (cx + r), z \in (cz - r) .. (cz + r)}

\* The coordinates of the packets of kind k in stream s.
CoordsOf(s, k) == {[x |-> s[i].x, z |-> s[i].z] : i \in PlacesOf(s, k)}

\* C7: for a player at the start position, the post-login stream holds exactly
\* (2R+1)^2 pre-chunk packets and (2R+1)^2 map-chunk packets, covering the
\* square x, z in -R .. R centred on chunk (0, 0).
C7_FullSquareStreamed ==
    \A p \in Players :
        sent[p] # <<>> =>
            LET s == sent[p][1]
                want == (2 * chunkRadius + 1) * (2 * chunkRadius + 1)
            IN /\ Cardinality(PlacesOf(s, "PreChunk")) = want
               /\ Cardinality(PlacesOf(s, "MapChunk")) = want
               /\ CoordsOf(s, "PreChunk") = Square(0, 0, chunkRadius)
               /\ CoordsOf(s, "MapChunk") = Square(0, 0, chunkRadius)

\* s is an initial part of t.
IsPrefix(s, t) == Len(s) <= Len(t) /\ SubSeq(t, 1, Len(s)) = s

\* The slice TransmitLoop has received and not yet written.
InFlight(p) == IF txPc[p] = "write" /\ txBs[p] # <<>> THEN <<txBs[p]>> ELSE <<>>

\* C8: the slices written to a player's socket are, one Write per slice and in
\* order, the slices the game loop put on txQueue: while no write has failed,
\* what was written, the slice being written and the queue make up exactly what
\* was sent, and what was written is always an initial part of it.
C8_WriterPreservesOrder ==
    \A p \in Players :
        /\ IsPrefix(written[p], sent[p])
        /\ txPc[p] # "done" => written[p] \o InFlight(p) \o txQueue[p] = sent[p]

\* C8 witness: the post-login stream and a time update have been written and
\* another slice is waiting in the queue.
C8_Witness ==
    \E p \in Players :
        /\ Len(written[p]) >= 2
        /\ written[p][2] = SendTimeUpdate(written[p][2][1].time)
        /\ txQueue[p] # <<>>

\* C16: the player's stored position equals the position of the last packet
\* handled when that was a position packet, and the stored orientation equals
\* the orientation of the last packet handled when that was a look packet.
C16_LastMoveStored ==
    \A p \in Players :
        /\ rxLast[p].kind = "PlayerPosition" => position[p] = rxLast[p].position
        /\ rxLast[p].kind = "PlayerLook" => orientation[p] = rxLast[p].orientation

\* C17: handling a keep-alive, chat, flying, position, look, digging or
\* block-placement packet leaves the transmit queues, what was sent, the
\* registered players, the game loop's work and the world clock as they were.
C17_LoggingHandlersSendNothing ==
    [][\A p \in Players : \A pkt \in LoggedInputs :
          RxLogged(p, pkt) =>
              UNCHANGED <<txQueue, txClosed, sent, players, workQueue, glPending, time>>]_vars

\* C17 witness: a registered player with slices waiting in its transmit queue
\* has had a position or look packet handled.
C17_Witness ==
    \E p \in Players :
        /\ rxLast[p] # NoPacket
        /\ p \in players
        /\ txQueue[p] # <<>>

\* C19: once a player's disconnect has been processed, StartPlayer has
\* returned and the game loop has run all submitted work, the player is not
\* registered (the AddPlayer work item ran before the RemovePlayer one).
C19_AddBeforeRemove ==
    \A p \in Players :
        (removed[p] /\ spPc[p] = "started" /\ GameDrained) => p \notin players

-----------------------------------------------------------------------------
(***************************************************************************)
(* Properties of ChunksInRadius (checked under RadiusSpec)                 *)
(***************************************************************************)

\* C12: once the channel is closed, it has yielded one chunk per coordinate
\* whose load succeeded and nothing for a failed load: (2R+1)^2 items less the
\* failures, every item a chunk, in row-major order (Z outer, X inner) and
\* without duplicates; with no failure, the chunk of every coordinate of the
\* square in order.
C12_RadiusYieldsLoadedChunks ==
    cirClosed =>
        /\ Len(cirOut) = CirCount - cirFails
        /\ \A i \in DOMAIN cirOut : ~cirOut[i].nil
        /\ \A i, j \in DOMAIN cirOut :
              i < j => /\ cirOut[i] # cirOut[j]
                       /\ \/ cirOut[i].Z < cirOut[j].Z
                          \/ cirOut[i].Z = cirOut[j].Z /\ cirOut[i].X < cirOut[j].X
        /\ cirFails = 0 =>
              \A k \in 1 .. CirCount : cirOut[k] = ChunkOf(CirCoordAt(cirLoc, k))

-----------------------------------------------------------------------------
(***************************************************************************)
(* Properties of the inventory slots (checked under SlotSpec)              *)
(***************************************************************************)

Min(a, b) == IF a <= b THEN a ELSE b

\* The subject and the passed slot before and after the last operation.
SubjectBefore == slotLast.before[slotLast.dst]
SourceBefore == slotLast.before[slotLast.from]
SubjectNow == slots[slotLast.dst]
SourceNow == slots[slotLast.from]

C20_AddPreservesItems ==
    /\ \A n \in SlotNames : slots[n].Quantity <= SlotQuantityMax
    /\ slotLast.op = "Add" =>
          /\ SubjectNow.Quantity + SourceNow.Quantity
                = SubjectBefore.Quantity + SourceBefore.Quantity
          /\ (/\ SubjectBefore.ItemType # ItemIdNull
              /\ \/ SubjectBefore.ItemType # SourceBefore.ItemType
                 \/ SubjectBefore.Uses # SourceBefore.Uses)
             => slots = slotLast.before

\* C20 witness: after an earlier operation changed the slots, an Add between
\* two slots of one ItemType and different Uses left both as they were.
C20_Witness ==
    /\ slotLast.op = "Add"
    /\ SubjectBefore.ItemType # ItemIdNull
    /\ SubjectBefore.ItemType = SourceBefore.ItemType
    /\ SubjectBefore.Uses # SourceBefore.Uses
    /\ SourceBefore.Quantity + SubjectBefore.Quantity > SlotQuantityMax
    /\ slots = slotLast.before

-----------------------------------------------------------------------------
(***************************************************************************)
(* Properties of the packet codec (checked under CodecSpec)                *)
(***************************************************************************)

\* The number of 16-bit code units of the wire form of string s.
WireUnits(s) == UnitCount(decodeUtf8(s))

\* C13: for a string of at most 32767 code units, the write succeeds, the
\* length prefix written equals the number of code units that follow, and
\* reading the written bytes succeeds and returns the string.
C13_StringRoundTrip ==
    (codecIn.kind = "string" /\ codecPc # "start" /\ WireUnits(codecIn.s) <= MaxInt16) =>
        /\ codecPc # "writeFailed"
        /\ codecPc \in {"written", "read", "readFailed"} =>
              /\ Len(codecWire.bytes) = 2
              /\ Uint16(codecWire.bytes) = UnitCount(codecWire.units)
        /\ codecPc # "readFailed"
        /\ codecPc = "read" => codecVal = codecIn.s

\* C14: when ReadPacket accepted the input bytes, WritePacket of the decoded
\* record emits exactly those bytes.
C14_ReencodeIsExact ==
    (codecIn.kind = "packet" /\ codecPc = "written") => codecWire.bytes = codecIn.b

\* C15: writing a string of more than 32767 code units fails with the
\* string-too-long error and nothing reaches the writer.
C15_LongStringRejected ==
    (codecIn.kind = "string" /\ codecPc # "start" /\ WireUnits(codecIn.s) > MaxInt16) =>
        /\ codecPc = "writeFailed"
        /\ codecErr = "ErrorStrTooLong"
        /\ codecWire = EmptyWire

\* C15 witness: the write of a string of 32768 one-byte characters, and of a
\* string longer still, has failed.
C15_Witness ==
    /\ codecIn.kind = "string"
    /\ codecPc = "writeFailed"
    /\ WireUnits(codecIn.s) > MaxInt16
    /\ StringLen(codecIn.s) = WireUnits(codecIn.s)

-----------------------------------------------------------------------------
(***************************************************************************)
(* Specifications                                                          *)
(***************************************************************************)

\* The parts a specification does not exercise stay as constructed.
RadiusIdle ==
    /\ cirLoc = [X |-> 0, Z |-> 0]
    /\ cirChunks = {}
    /\ cirI = 0
    /\ cirOut = <<>>
    /\ cirFails = 0
    /\ cirClosed = FALSE
SlotIdle ==
    /\ slots = [n \in SlotNames |-> SlotInit]
    /\ slotLast = [op |-> "none", dst |-> "s", from |-> "src", before |-> slots]
CodecIdle ==
    /\ codecIn = [kind |-> "string", s |-> <<>>, b |-> <<>>]
    /\ codecPc = "start"
    /\ codecWire = EmptyWire
    /\ codecVal = <<>>
    /\ codecErr = "nil"

Init == ChunkInitVars /\ PlayerInitVars /\ RadiusIdle /\ SlotIdle /\ CodecIdle
Next == PlayerNext
Spec == Init /\ [][Next]_vars

ChunkInit == ChunkInitVars /\ PlayerInitVars /\ RadiusIdle /\ SlotIdle /\ CodecIdle
ChunkSpec == ChunkInit /\ [][ChunkNext]_vars

RadiusInit == ChunkInitVars /\ PlayerInitVars /\ RadiusInitVars /\ SlotIdle /\ CodecIdle
RadiusSpec == RadiusInit /\ [][RadiusNext]_vars

SlotInitial == ChunkInitVars /\ PlayerInitVars /\ RadiusIdle /\ SlotInitVars /\ CodecIdle
SlotSpec == SlotInitial /\ [][SlotNext]_vars

CodecInit == ChunkInitVars /\ PlayerInitVars /\ RadiusIdle /\ SlotIdle /\ CodecInitVars
CodecSpec == CodecInit /\ [][CodecNext]_vars

====
